---- MODULE Spec2Model ----
(***************************************************************************)
(* Model of skills/rho-cloud-onboard/scripts/send-test-email.py: one       *)
(* invocation of main().  The process state is the program position (pc,   *)
(* named after source lines), the locals of main(), the lines written to   *)
(* standard output, the exit status and the state of the SMTP connection.  *)
(* The mail relay is the environment: every call to it either returns or   *)
(* raises, chosen nondeterministically.                                    *)
(***************************************************************************)
EXTENDS Integers, Sequences, FiniteSets, TLC

\* ---------------------------------------------------------------- bounds
\* Largest number of command-line arguments after the program name.
MaxArgs == 3

\* ------------------------------------------------------- optional values
\* Python's None / a present value.
None == <<>>
Some(v) == <<v>>
Val(o) == o[1]

\* ------------------------------------------------------------ input sets
ProgName == "send-test-email.py"

\* Texts a caller may pass as handle, subject or body.
Words == {"alice", "bob", "", "a@b", "Hi", "Hello"}

\* sys.argv: the program name followed by 0..MaxArgs arguments.
ArgvSet == UNION {{<<ProgName>> \o a : a \in [1..n -> Words]} : n \in 0..MaxArgs}

\* Values of an environment variable: unset, set but empty, set.
UserValues == {None, Some(""), Some("me@gmail.com")}
PassValues == {None, Some(""), Some("abcd-efgh")}

\* Messages of the exceptions the relay calls can raise.
ConnectErrors == {"[Errno 111] Connection refused"}
LoginErrors == {"(535, b'Username and Password not accepted')"}
SendmailErrors == {"{'rcpt': (550, b'No such user')}"}
QuitErrors == {"(421, b'Service not available')"}

\* ----------------------------------------------------------- pure pieces
\* len(sys.argv) and sys.argv[i] (Python indexes from 0).
PyLen(av) == Len(av)
Arg(av, i) == av[i + 1]

DefaultSubject == "Test from demo"
DefaultBody == "This is a test email sent during the Rho Cloud demo."
UsageLine == "Usage: send-test-email.py <handle> [subject] [body]"
ConfigLine1 == "ERROR: Set GMAIL_USER and GMAIL_APP_PASSWORD environment variables"
ConfigLine2 == "Generate an app password at: https://myaccount.google.com/apppasswords"

\* Variant: an empty handle is rejected like a missing one.
MissingHandle_rejectEmpty(av) == Len(av) < 2 \/ av[2] = ""

\* line 19: len(sys.argv) < 2
MissingHandle(av) == PyLen(av) < 2

\* line 24
SubjectOf(av) == IF PyLen(av) > 2 THEN Arg(av, 2) ELSE DefaultSubject

\* Variant: the body is read from the subject's position.
BodyOf_offByOne(av) == IF Len(av) > 2 THEN av[3] ELSE DefaultBody

\* line 25
BodyOf(av) == IF PyLen(av) > 3 THEN Arg(av, 3) ELSE DefaultBody

\* Python truthiness of the result of os.environ.get: None and "" are false.
Truthy(o) == o # None /\ Val(o) # ""

\* Variant: only the sender account is checked.
MissingConfig_userOnly(u, p) == ~Truthy(u)

\* line 30: not gmail_user or not gmail_pass
MissingConfig(u, p) == ~Truthy(u) \/ ~Truthy(p)

\* line 35: f"{handle}@runrho.dev"
ToAddr(h) == h \o "@runrho.dev"

\* lines 37-40: MIMEText(body) with Subject, From and To set.
NoMsg == [Subject |-> "", From |-> "", To |-> "", payload |-> "", ctype |-> ""]
MakeMsg(b, s, f, t) ==
    [Subject |-> s, From |-> f, To |-> t, payload |-> b, ctype |-> "text/plain"]

\* line 45: msg.as_string(), as the lines of the rendered message.
AsString(m) ==
    << "Content-Type: " \o m.ctype, "Subject: " \o m.Subject,
       "From: " \o m.From, "To: " \o m.To, "", m.payload >>

\* line 43: the fixed relay.
SmtpHost == "smtp.gmail.com"
SmtpPort == 465

\* line 46 / line 48
SentLine(t, s) == "Sent to " \o t \o ": " \o s
ErrorLine(e) == "ERROR: " \o e

\* ------------------------------------------------------------------ state
VARIABLES
    argv,        \* sys.argv
    environ,     \* os.environ restricted to the two variables read
    pc,          \* program position
    handle, subject, body, gmail_user, gmail_pass, to_addr, msg,
    exc,         \* exception in flight (None when there is none)
    stdout,      \* lines printed
    exitCode,    \* process exit status (None while running)
    connOpen,    \* the SMTP_SSL connection is open
    authed,      \* login succeeded on the connection
    net,         \* history of relay calls, in order
    submitted,   \* envelopes accepted by the relay
    raised       \* history: messages of the exceptions raised, in order

vars == <<argv, environ, pc, handle, subject, body, gmail_user, gmail_pass,
          to_addr, msg, exc, stdout, exitCode, connOpen, authed, net,
          submitted, raised>>

locals == <<handle, subject, body, gmail_user, gmail_pass, to_addr, msg>>
relay == <<connOpen, authed, net, submitted>>
inputs == <<argv, environ>>

Init ==
    /\ argv \in ArgvSet
    /\ environ \in [GMAIL_USER : UserValues, GMAIL_APP_PASSWORD : PassValues]
    /\ pc = "L19"
    /\ handle = "" /\ subject = "" /\ body = ""
    /\ gmail_user = None /\ gmail_pass = None
    /\ to_addr = "" /\ msg = NoMsg
    /\ exc = None
    /\ stdout = <<>>
    /\ exitCode = None
    /\ connOpen = FALSE /\ authed = FALSE
    /\ net = <<>> /\ submitted = <<>> /\ raised = <<>>

\* os.environ.get(name)
EnvironGet(name) == environ[name]

\* sys.exit(code)
SysExit(code) == exitCode' = Some(code) /\ pc' = "done"

\* Variant: the usage branch returns from main() instead of sys.exit(1).
CheckArgs_return ==
    /\ pc = "L19"
    /\ IF Len(argv) < 2
       THEN /\ stdout' = Append(stdout, UsageLine)
            /\ exitCode' = Some(0)
            /\ pc' = "done"
       ELSE /\ pc' = "L23"
            /\ UNCHANGED <<stdout, exitCode>>
    /\ UNCHANGED <<inputs, locals, exc, relay, raised>>

\* lines 19-21
CheckArgs ==
    /\ pc = "L19"
    /\ IF MissingHandle(argv)
       THEN /\ stdout' = Append(stdout, UsageLine)
            /\ SysExit(1)
       ELSE /\ pc' = "L23"
            /\ UNCHANGED <<stdout, exitCode>>
    /\ UNCHANGED <<inputs, locals, exc, relay, raised>>

\* lines 23-25
ParseArgs ==
    /\ pc = "L23"
    /\ handle' = Arg(argv, 1)
    /\ subject' = SubjectOf(argv)
    /\ body' = BodyOf(argv)
    /\ pc' = "L27"
    /\ UNCHANGED <<inputs, gmail_user, gmail_pass, to_addr, msg, exc, stdout,
                   exitCode, relay, raised>>

\* lines 27-28
ReadEnv ==
    /\ pc = "L27"
    /\ gmail_user' = EnvironGet("GMAIL_USER")
    /\ gmail_pass' = EnvironGet("GMAIL_APP_PASSWORD")
    /\ pc' = "L30"
    /\ UNCHANGED <<inputs, handle, subject, body, to_addr, msg, exc, stdout,
                   exitCode, relay, raised>>

\* lines 30-33
CheckEnv ==
    /\ pc = "L30"
    /\ IF MissingConfig(gmail_user, gmail_pass)
       THEN /\ stdout' = stdout \o <<ConfigLine1, ConfigLine2>>
            /\ SysExit(1)
       ELSE /\ pc' = "L35"
            /\ UNCHANGED <<stdout, exitCode>>
    /\ UNCHANGED <<inputs, locals, exc, relay, raised>>

\* lines 35-40
Compose ==
    /\ pc = "L35"
    /\ to_addr' = ToAddr(handle)
    /\ msg' = MakeMsg(body, subject, Val(gmail_user), ToAddr(handle))
    /\ pc' = "L43"
    /\ UNCHANGED <<inputs, handle, subject, body, gmail_user, gmail_pass, exc,
                   stdout, exitCode, relay, raised>>

\* One relay call as recorded in the history.
Call(name, ok, args) == [call |-> name, ok |-> ok, args |-> args]

\* raise: the exception e, raised by step, becomes the one in flight.
Raise(step, e) ==
    /\ exc' = Some(e)
    /\ raised' = Append(raised, [step |-> step, msg |-> e])

\* line 43, entering the with statement: smtplib.SMTP_SSL("smtp.gmail.com", 465).
\* The constructor returns an open connection or raises (leaving none open);
\* a raise here is outside the with block, so control goes to the handler.
Connect ==
    /\ pc = "L43"
    /\ \/ /\ connOpen' = TRUE
          /\ net' = Append(net, Call("connect", TRUE, <<SmtpHost, SmtpPort>>))
          /\ pc' = "L44"
          /\ UNCHANGED <<exc, raised>>
       \/ \E e \in ConnectErrors :
          /\ net' = Append(net, Call("connect", FALSE, <<SmtpHost, SmtpPort>>))
          /\ Raise("connect", e)
          /\ pc' = "L47"
          /\ UNCHANGED connOpen
    /\ UNCHANGED <<inputs, locals, stdout, exitCode, authed, submitted>>

\* Variant: a failed login is not propagated and the submission goes ahead.
Login_ignoreFailure ==
    /\ pc = "L44"
    /\ \E ok \in BOOLEAN :
          /\ authed' = ok
          /\ net' = Append(net, Call("login", ok, <<Val(gmail_user), Val(gmail_pass)>>))
    /\ pc' = "L45"
    /\ UNCHANGED <<inputs, locals, exc, raised, stdout, exitCode, connOpen, submitted>>

\* line 44: server.login(gmail_user, gmail_pass)
Login ==
    /\ pc = "L44"
    /\ \/ /\ authed' = TRUE
          /\ net' = Append(net, Call("login", TRUE, <<Val(gmail_user), Val(gmail_pass)>>))
          /\ pc' = "L45"
          /\ UNCHANGED <<exc, raised>>
       \/ \E e \in LoginErrors :
          /\ net' = Append(net, Call("login", FALSE, <<Val(gmail_user), Val(gmail_pass)>>))
          /\ Raise("login", e)
          /\ pc' = "exit"
          /\ UNCHANGED authed
    /\ UNCHANGED <<inputs, locals, stdout, exitCode, connOpen, submitted>>

\* Variant: success is reported inside the with block, right after sendmail.
Sendmail_printInside ==
    /\ pc = "L45"
    /\ LET args == <<Val(gmail_user), <<to_addr>>, AsString(msg)>> IN
       \/ /\ net' = Append(net, Call("sendmail", TRUE, args))
          /\ submitted' = Append(submitted,
                [from_addr |-> args[1], to_addrs |-> args[2], data |-> args[3]])
          /\ stdout' = Append(stdout, SentLine(to_addr, subject))
          /\ pc' = "exit"
          /\ UNCHANGED <<exc, raised>>
       \/ \E e \in SendmailErrors :
          /\ net' = Append(net, Call("sendmail", FALSE, args))
          /\ Raise("sendmail", e)
          /\ pc' = "exit"
          /\ UNCHANGED <<submitted, stdout>>
    /\ UNCHANGED <<inputs, locals, exitCode, connOpen, authed>>

\* line 45: server.sendmail(gmail_user, [to_addr], msg.as_string())
Sendmail ==
    /\ pc = "L45"
    /\ LET args == <<Val(gmail_user), <<to_addr>>, AsString(msg)>> IN
       \/ /\ net' = Append(net, Call("sendmail", TRUE, args))
          /\ submitted' = Append(submitted,
                [from_addr |-> args[1], to_addrs |-> args[2], data |-> args[3]])
          /\ pc' = "exit"
          /\ UNCHANGED <<exc, raised>>
       \/ \E e \in SendmailErrors :
          /\ net' = Append(net, Call("sendmail", FALSE, args))
          /\ Raise("sendmail", e)
          /\ pc' = "exit"
          /\ UNCHANGED submitted
    /\ UNCHANGED <<inputs, locals, stdout, exitCode, connOpen, authed>>

\* Variant: no with statement; the connection is closed on the success path only.
ExitWith_noCloseOnError ==
    /\ pc = "exit"
    /\ IF exc = None
       THEN /\ connOpen' = FALSE
            /\ \/ /\ net' = Append(net, Call("quit", TRUE, <<>>))
                  /\ pc' = "L46"
                  /\ UNCHANGED <<exc, raised>>
               \/ \E e \in QuitErrors :
                  /\ net' = Append(net, Call("quit", FALSE, <<>>))
                  /\ Raise("quit", e)
                  /\ pc' = "L47"
       ELSE /\ pc' = "L47"
            /\ UNCHANGED <<connOpen, net, exc, raised>>
    /\ UNCHANGED <<inputs, locals, stdout, exitCode, authed, submitted>>

\* line 43, leaving the with statement: SMTP_SSL.__exit__ sends QUIT and
\* always closes the connection.  If it returns, an exception in flight is
\* re-raised and otherwise control falls to line 46; if QUIT itself raises,
\* that exception replaces the one in flight.
ExitWith ==
    /\ pc = "exit"
    /\ connOpen' = FALSE
    /\ \/ /\ net' = Append(net, Call("quit", TRUE, <<>>))
          /\ pc' = IF exc = None THEN "L46" ELSE "L47"
          /\ UNCHANGED <<exc, raised>>
       \/ \E e \in QuitErrors :
          /\ net' = Append(net, Call("quit", FALSE, <<>>))
          /\ Raise("quit", e)
          /\ pc' = "L47"
    /\ UNCHANGED <<inputs, locals, stdout, exitCode, authed, submitted>>

\* line 46, then main() returns and the interpreter exits with status 0.
Report ==
    /\ pc = "L46"
    /\ stdout' = Append(stdout, SentLine(to_addr, subject))
    /\ exitCode' = Some(0)
    /\ pc' = "done"
    /\ UNCHANGED <<inputs, locals, exc, relay, raised>>

\* Variant: the handler prints the error but does not call sys.exit(1).
Except_noExit ==
    /\ pc = "L47"
    /\ stdout' = Append(stdout, ErrorLine(Val(exc)))
    /\ exitCode' = Some(0)
    /\ pc' = "done"
    /\ UNCHANGED <<inputs, locals, exc, relay, raised>>

\* Variant: the handler retries the transaction once before giving up.
Except_retryOnce ==
    /\ pc = "L47"
    /\ stdout' = Append(stdout, ErrorLine(Val(exc)))
    /\ IF stdout = <<>>
       THEN /\ pc' = "L43"
            /\ exc' = None
            /\ UNCHANGED exitCode
       ELSE /\ SysExit(1)
            /\ UNCHANGED exc
    /\ UNCHANGED <<inputs, locals, relay, raised>>

\* lines 47-49: except Exception as e: print(f"ERROR: {e}"); sys.exit(1)
Except ==
    /\ pc = "L47"
    /\ stdout' = Append(stdout, ErrorLine(Val(exc)))
    /\ SysExit(1)
    /\ UNCHANGED <<inputs, locals, exc, relay, raised>>

Next ==
    \/ CheckArgs \/ ParseArgs \/ ReadEnv \/ CheckEnv \/ Compose
    \/ Connect \/ Login \/ Sendmail \/ ExitWith \/ Report \/ Except

Spec == Init /\ [][Next]_vars

\* The blocking relay calls return or fail, and the interpreter keeps running
\* the single thread until it exits.
FairSpec == Spec /\ WF_vars(Next)

\* ------------------------------------------------------------- properties
\* Shorthands over the recorded history, written against the literal texts.
Printed(line) == \E i \in 1..Len(stdout) : stdout[i] = line
SentPrinted ==
    \E i \in 1..Len(stdout) :
        stdout[i] \in {"Sent to " \o h \o "@runrho.dev: " \o s :
                         h \in Words, s \in Words \cup {"Test from demo"}}
CallsOf(name) == {i \in 1..Len(net) : net[i].call = name}
Succeeded(name) == \E i \in CallsOf(name) : net[i].ok
Unset(name) == environ[name] = <<>>
Usable(name) == environ[name] # <<>> /\ environ[name] # <<"">>
PassesValidation == Len(argv) >= 2 /\ Usable("GMAIL_USER") /\ Usable("GMAIL_APP_PASSWORD")
AfterScope == pc \in {"L46", "L47", "done"}

\* C1: with no handle argument, whatever the environment, the run makes no
\* relay call at all (no connection, login or submission) and ends having
\* printed exactly the usage line, with exit status 1.
C1_UsageOnMissingHandle ==
    Len(argv) = 1 =>
        /\ net = <<>> /\ ~connOpen /\ submitted = <<>>
        /\ pc \in {"L19", "done"}
        /\ pc = "done" =>
              /\ stdout = <<"Usage: send-test-email.py <handle> [subject] [body]">>
              /\ exitCode = <<1>>

C1_Witness ==
    /\ Len(argv) = 1 /\ pc = "done"
    /\ Usable("GMAIL_USER") /\ Usable("GMAIL_APP_PASSWORD")

\* C2: with a handle argument and GMAIL_USER or GMAIL_APP_PASSWORD unset,
\* the run makes no relay call and ends having printed exactly the two
\* configuration lines, with exit status 1.
C2_ConfigOnUnsetVariable ==
    (Len(argv) >= 2 /\ (Unset("GMAIL_USER") \/ Unset("GMAIL_APP_PASSWORD"))) =>
        /\ net = <<>> /\ ~connOpen /\ submitted = <<>>
        /\ pc = "done" =>
              /\ stdout = <<"ERROR: Set GMAIL_USER and GMAIL_APP_PASSWORD environment variables",
                            "Generate an app password at: https://myaccount.google.com/apppasswords">>
              /\ exitCode = <<1>>

C2_Witness ==
    /\ Len(argv) >= 2 /\ pc = "done"
    /\ Usable("GMAIL_USER") /\ Unset("GMAIL_APP_PASSWORD")

\* C3 (as claimed): when connect, login or sendmail raised an error, the run
\* ends having printed "ERROR: " followed by that error's message, with exit
\* status 1 and without a "Sent to" line.
C3_StepErrorIsReported ==
    (pc = "done" /\ raised # <<>> /\ raised[1].step \in {"connect", "login", "sendmail"}) =>
        /\ Printed("ERROR: " \o raised[1].msg)
        /\ exitCode = <<1>>
        /\ ~SentPrinted

\* C4: a run whose relay transaction completed without any error ends with
\* the line "Sent to <handle>@runrho.dev: <subject used>" and exit status 0;
\* exit status 0 occurs in no other run, and a missing handle, an unset
\* variable and an error of the transaction each end with exit status 1.
C4_ExitStatus ==
    pc = "done" =>
        LET success == Succeeded("sendmail") /\ raised = <<>> IN
        /\ exitCode \in {<<0>>, <<1>>}
        /\ (exitCode = <<0>>) <=> success
        /\ success =>
              Printed("Sent to " \o argv[2] \o "@runrho.dev: "
                        \o (IF Len(argv) >= 3 THEN argv[3] ELSE "Test from demo"))
        /\ (\/ Len(argv) < 2
            \/ Unset("GMAIL_USER") \/ Unset("GMAIL_APP_PASSWORD")
            \/ raised # <<>>) => exitCode = <<1>>

C4_Witness ==
    /\ pc = "done" /\ exitCode = <<0>>
    /\ argv = <<ProgName, "alice", "Hi">>

\* C5: once the message is composed, its recipient is the handle followed by
\* "@runrho.dev", its sender is GMAIL_USER, its subject is the second
\* argument if supplied and "Test from demo" otherwise, and its body is the
\* third argument if supplied and the fixed demo sentence otherwise.
C5_ComposedMessage ==
    msg # NoMsg =>
        /\ to_addr = argv[2] \o "@runrho.dev"
        /\ msg.To = argv[2] \o "@runrho.dev"
        /\ msg.From = environ.GMAIL_USER[1]
        /\ msg.Subject = (IF Len(argv) >= 3 THEN argv[3] ELSE "Test from demo")
        /\ msg.payload = (IF Len(argv) >= 4 THEN argv[4]
                          ELSE "This is a test email sent during the Rho Cloud demo.")
        /\ (argv = <<ProgName, "bob", "Hi", "Hello">> =>
              /\ msg.To = "bob@runrho.dev" /\ msg.Subject = "Hi" /\ msg.payload = "Hello")
        /\ (argv = <<ProgName, "alice">> =>
              /\ msg.To = "alice@runrho.dev" /\ msg.Subject = "Test from demo")

C5_Witness ==
    /\ msg # NoMsg
    /\ argv = <<ProgName, "bob", "Hi", "Hello">>

\* C6: a run that passes handle and configuration validation calls the
\* relay's connect exactly once and never again (no retry after a failure);
\* the connection it opened is closed when the with scope is left, after a
\* successful send as well as after an error, so no terminal state has an
\* open connection.
C6_OneConnection ==
    /\ Cardinality(CallsOf("connect")) <= 1
    /\ (PassesValidation /\ pc \in {"L44", "L45", "exit", "L46", "L47", "done"}) =>
          Cardinality(CallsOf("connect")) = 1
    /\ connOpen => (Succeeded("connect") /\ CallsOf("quit") = {})
    /\ AfterScope => ~connOpen
    /\ (AfterScope /\ Succeeded("connect")) => Cardinality(CallsOf("quit")) = 1

C6_Witness ==
    /\ pc = "done" /\ PassesValidation
    /\ Succeeded("connect") /\ ~connOpen
    /\ raised # <<>> /\ raised[1].step = "login"

\* C7: the run only moves forward through Start (argument and configuration
\* checks), Validated (compose and relay transaction) and a terminal state:
\* it eventually terminates, takes no step once terminated, ends either as
\* Sent (status 0, success line, no error) or as Failed (status 1, no
\* success line) and never as both, and Sent is entered from Validated only.
Rank(p) ==
    CASE p = "L19" -> 0 [] p = "L23" -> 1 [] p = "L27" -> 2 [] p = "L30" -> 3
      [] p = "L35" -> 4 [] p = "L43" -> 5 [] p = "L44" -> 6 [] p = "L45" -> 7
      [] p = "exit" -> 8 [] p = "L46" -> 9 [] p = "L47" -> 9 [] p = "done" -> 10

C7_LinearRun ==
    /\ <>(pc = "done")
    /\ [][pc # "done" /\ Rank(pc') > Rank(pc)]_vars
    /\ [][(pc' = "done" /\ exitCode' = <<0>>) => Rank(pc) >= 4]_vars
    /\ [](pc = "done" =>
            \/ exitCode = <<0>> /\ SentPrinted /\ raised = <<>> /\ Len(stdout) = 1
            \/ exitCode = <<1>> /\ ~SentPrinted)

C7_Witness ==
    /\ pc = "done" /\ exitCode = <<1>>
    /\ Succeeded("login") /\ raised # <<>>

\* C8: the usage error occurs exactly when no handle argument is supplied;
\* any supplied handle, the empty string and text with '@' included, passes
\* the argument check and is used unchanged in front of "@runrho.dev".
C8_PresenceOnly ==
    /\ pc # "L19" =>
          (Printed("Usage: send-test-email.py <handle> [subject] [body]") <=> Len(argv) < 2)
    /\ (Len(argv) >= 2 /\ pc \notin {"L19", "L23"}) => handle = argv[2]
    /\ (Len(argv) >= 2 /\ pc = "done") =>
          (net # <<>> \/ Printed("ERROR: Set GMAIL_USER and GMAIL_APP_PASSWORD environment variables"))
    /\ (PassesValidation /\ Rank(pc) >= 5) =>
          /\ to_addr = argv[2] \o "@runrho.dev"
          /\ msg.To = argv[2] \o "@runrho.dev"

C8_Witness ==
    /\ Len(argv) >= 2 /\ argv[2] = ""
    /\ to_addr = "@runrho.dev"
    /\ Len(submitted) = 1 /\ submitted[1].to_addrs = <<"@runrho.dev">>

\* C9: connect, login and sendmail are each called at most once and in that
\* order: login only on an established connection, sendmail only after a
\* successful login; sendmail is called with GMAIL_USER as the one envelope
\* sender and <handle>@runrho.dev, the address of the To header, as the one
\* envelope recipient.
C9_CallOrder ==
    /\ \A name \in {"connect", "login", "sendmail"} : Cardinality(CallsOf(name)) <= 1
    /\ \A i \in CallsOf("connect") : i = 1 /\ net[i].args = <<"smtp.gmail.com", 465>>
    /\ \A i \in CallsOf("login") :
          /\ i = 2 /\ net[1].call = "connect" /\ net[1].ok
          /\ net[i].args = <<environ.GMAIL_USER[1], environ.GMAIL_APP_PASSWORD[1]>>
    /\ \A i \in CallsOf("sendmail") :
          /\ i = 3 /\ net[2].call = "login" /\ net[2].ok
          /\ net[i].args[1] = environ.GMAIL_USER[1]
          /\ net[i].args[2] = <<argv[2] \o "@runrho.dev">>
          /\ net[i].args[3][4] = "To: " \o net[i].args[2][1]
    /\ Len(submitted) <= 1
    /\ \A k \in 1..Len(submitted) :
          /\ submitted[k].from_addr = environ.GMAIL_USER[1]
          /\ submitted[k].to_addrs = <<argv[2] \o "@runrho.dev">>

C9_Witness ==
    /\ Len(net) >= 3 /\ net[3].call = "sendmail" /\ net[3].ok
    /\ Len(submitted) = 1

\* C10: the "Sent to" line is printed only after the with scope was left
\* without error, hence after the connection was closed; when closing raises
\* after sendmail succeeded, the run ends with "ERROR: <closing error>" and
\* exit status 1 and without a success line, although the relay accepted the
\* message.
C10_ReportAfterClose ==
    /\ SentPrinted =>
          /\ ~connOpen /\ raised = <<>>
          /\ net[Len(net)].call = "quit" /\ net[Len(net)].ok
    /\ (pc = "done" /\ Succeeded("sendmail") /\ raised # <<>>) =>
          /\ raised[Len(raised)].step = "quit"
          /\ stdout = <<"ERROR: " \o raised[Len(raised)].msg>>
          /\ exitCode = <<1>>
          /\ Len(submitted) = 1

C10_Witness ==
    /\ pc = "done" /\ exitCode = <<1>>
    /\ Len(submitted) = 1 /\ ~connOpen
====
